---- MODULE Spec2Model ----
(***************************************************************************)
(* Model of spellcheck.py: the spellchecking run (main), the context       *)
(* reporter (print_words_context) and the content pruner (prune_content).  *)
(*                                                                         *)
(* Strings are sequences of one-character strings, so substring tests,     *)
(* str.replace, str.strip and str.split are computed position by position. *)
(***************************************************************************)
EXTENDS Integers, Sequences, FiniteSets, TLC

VARIABLES
    pc,             \* position of the run / of the function under study
    files,          \* filepaths: the list glob.glob returned
    dict,           \* args.dictionary_path: what kind of value it is
    i,              \* index of the file the for loop of main is at (1-based)
    j,              \* index of the bad file being reported (1-based)
    good_files,     \* list of CheckedFile
    bad_files,      \* list of CheckedFile
    outputs,        \* history: result.stdout of the engine for each checked file
    calls,          \* history: external programs run, in order
    out_stream,     \* what was printed to standard output, in order
    err_stream,     \* what reached the process's standard error, in order
    exit_code,      \* exit status of the process, -1 while running
    content_lines,  \* print_words_context: the lines read from the file
    words,          \* print_words_context: the flagged words
    report,         \* print_words_context: what it printed and how it ended
    doc,            \* prune_content: the tree parsed from the converter's HTML
    pruned          \* prune_content: the returned text

vars == <<pc, files, dict, i, j, good_files, bad_files, outputs, calls,
          out_stream, err_stream, exit_code, content_lines, words, report,
          doc, pruned>>

mainVars == <<files, dict, i, j, good_files, bad_files, outputs, calls,
              out_stream, err_stream, exit_code>>
ctxVars == <<content_lines, words, report>>
pruneVars == <<doc, pruned>>

-----------------------------------------------------------------------------
(* Bounds *)

MaxLines == 3
MaxWords == 2
MaxLongLines == 10
MaxFiles == 3
MaxNodes == 3

-----------------------------------------------------------------------------
(* Strings *)

\* ANSI escape codes, character by character ("ESC" is \033).
RED == <<"ESC", "[", "3", "1", "m">>
RESET == <<"ESC", "[", "0", "m">>

NL == "\n"
Whitespace == {" ", NL}

RECURSIVE SeqsUpTo(_, _)
SeqsUpTo(S, n) ==
    IF n = 0 THEN {<<>>}
    ELSE LET shorter == SeqsUpTo(S, n - 1)
         IN  shorter \cup {Append(s, x) : s \in shorter, x \in S}

\* s[k .. k+Len(w)-1] = w
OccursAt(s, w, k) ==
    /\ k + Len(w) - 1 <= Len(s)
    /\ SubSeq(s, k, k + Len(w) - 1) = w

\* Python: w in s  (case-sensitive substring test)
In(w, s) == \E k \in 1..(Len(s) + 1) : OccursAt(s, w, k)

\* "".join of new before every character of s and after the last one
ReplaceEmpty(s, new) ==
    LET m == Len(new) + 1
    IN  [p \in 1..(Len(s) * m + Len(new)) |->
            IF (p - 1) % m < Len(new) THEN new[((p - 1) % m) + 1]
            ELSE s[((p - 1) \div m) + 1]]

RECURSIVE ReplaceFrom(_, _, _, _)
\* s[k..] with the occurrences of old replaced, found left to right, each
\* search resuming after the occurrence just replaced
ReplaceFrom(s, old, new, k) ==
    LET found == {p \in k..Len(s) : OccursAt(s, old, p)}
    IN  IF found = {} THEN SubSeq(s, k, Len(s))
        ELSE LET p == CHOOSE x \in found : \A y \in found : x <= y
             IN  SubSeq(s, k, p - 1) \o new \o ReplaceFrom(s, old, new, p + Len(old))

\* Python: s.replace(old, new): every non-overlapping occurrence, left to right
Replace(s, old, new) ==
    IF old = <<>> THEN ReplaceEmpty(s, new) ELSE ReplaceFrom(s, old, new, 1)

RECURSIVE Digits(_)
\* Python: len(str(n)) for n >= 0
Digits(n) == IF n < 10 THEN 1 ELSE 1 + Digits(n \div 10)

RECURSIVE SortedSeq(_)
\* Python: sorted(S) for a set of integers
SortedSeq(S) ==
    IF S = {} THEN <<>>
    ELSE LET m == CHOOSE x \in S : \A y \in S : x <= y
         IN  <<m>> \o SortedSeq(S \ {m})

-----------------------------------------------------------------------------
(* print_words_context *)

\* Lines 204-209: the 0-based indices of the lines holding some word.
MatchLines(lines, ws) ==
    {n \in 0..(Len(lines) - 1) : \E k \in 1..Len(ws) : In(ws[k], lines[n + 1])}

RECURSIVE HighlightFrom(_, _, _, _)
HighlightFrom(new_content_line, line, ws, k) ==
    IF k > Len(ws) THEN new_content_line
    ELSE IF In(ws[k], line)
         THEN HighlightFrom(Replace(new_content_line, ws[k], RED \o ws[k] \o RESET),
                            line, ws, k + 1)
         ELSE HighlightFrom(new_content_line, line, ws, k + 1)

\* Lines 206-211: the copy of the line that is printed.  The test is made on
\* the original line, the replacement on the copy as highlighted so far.
Highlight(line, ws) == HighlightFrom(line, line, ws, 1)

\* Lines 213-219: match lines with their neighbours, within the file.
PrintLinesOffByOne(match_lines, n) ==
    UNION {  (IF m > 1 THEN {m - 1} ELSE {})
        \cup (IF m < n - 1 THEN {m + 1} ELSE {})
        \cup {m} : m \in match_lines}

PrintLines(match_lines, n) ==
    UNION {  (IF m > 0 THEN {m - 1} ELSE {})
        \cup (IF m < n - 1 THEN {m + 1} ELSE {})
        \cup {m} : m \in match_lines}

\* Line 222
LineNumberWidth(n) == Digits(n + 1)

Separator == [kind |-> "sep", index |-> -1, text |-> <<>>]

RECURSIVE Printed(_, _, _, _)
\* Lines 223-228: the separator rules and numbered lines, in print order.
Printed(order, k, last_print_line, new_lines) ==
    IF k > Len(order) THEN <<>>
    ELSE (IF order[k] - last_print_line > 1 THEN <<Separator>> ELSE <<>>)
         \o <<[kind |-> "line", index |-> order[k],
               text |-> new_lines[order[k] + 1]]>>
         \o Printed(order, k + 1, order[k], new_lines)

NoReport == [ended |-> "not run", printed |-> <<>>, width |-> 0]

\* Lines 199-229.  sorted(print_lines)[0] raises IndexError when the set is
\* empty, before anything is printed.
PrintWordsContext(lines, ws) ==
    LET new_lines == [k \in 1..Len(lines) |-> Highlight(lines[k], ws)]
        print_lines == PrintLines(MatchLines(lines, ws), Len(lines))
        order == SortedSeq(print_lines)
    IN  IF print_lines = {}
        THEN [ended |-> "IndexError", printed |-> <<>>, width |-> 0]
        ELSE [ended |-> "returned",
              printed |-> Printed(order, 1, order[1], new_lines),
              width |-> LineNumberWidth(Len(lines))]

\* The line indices of a printed report, separators left out.
PrintedIndices(p) ==
    LET Rec[k \in 0..Len(p)] ==
            IF k = 0 THEN <<>>
            ELSE IF p[k].kind = "line" THEN Append(Rec[k - 1], p[k].index)
                 ELSE Rec[k - 1]
    IN  Rec[Len(p)]

\* Inputs of the reporter: lines as readlines returns them, flagged words as
\* the engine lists them.
LineSet == { <<"a", "b", NL>>, <<"A", NL>>, <<"b", "a", "b", NL>>, <<NL>> }
WordSet == { <<"a">>, <<"b">>, <<"a", "b">>, <<"b", "a">> }

FileSet == SeqsUpTo(LineSet, MaxLines)
WordLists == SeqsUpTo(WordSet, MaxWords) \ {<<>>}

LongLineSet == { <<"a", NL>>, <<NL>> }
LongFileSet == SeqsUpTo(LongLineSet, MaxLongLines) \ {<<>>}

-----------------------------------------------------------------------------
(* Values the variables of the other parts keep while one part is studied *)

MainIdle ==
    /\ files = <<>>
    /\ dict = "unset"
    /\ i = 1
    /\ j = 1
    /\ good_files = <<>>
    /\ bad_files = <<>>
    /\ outputs = <<>>
    /\ calls = <<>>
    /\ out_stream = <<>>
    /\ err_stream = <<>>
    /\ exit_code = -1

CtxIdle ==
    /\ content_lines = <<>>
    /\ words = <<>>
    /\ report = NoReport

PruneIdle ==
    /\ doc = <<>>
    /\ pruned = [tree |-> <<>>, text |-> <<>>]

-----------------------------------------------------------------------------
(* The context reporter on its own *)

InitContext ==
    /\ pc = "ctx_call"
    /\ content_lines \in FileSet
    /\ words \in WordLists
    /\ report = NoReport
    /\ MainIdle
    /\ PruneIdle

InitWidth ==
    /\ pc = "ctx_call"
    /\ content_lines \in LongFileSet
    /\ words \in {<<<<"a">>>>, <<<<"b">>>>}
    /\ report = NoReport
    /\ MainIdle
    /\ PruneIdle

CallPrintWordsContext ==
    /\ pc = "ctx_call"
    /\ report' = PrintWordsContext(content_lines, words)
    /\ pc' = "ctx_done"
    /\ UNCHANGED <<content_lines, words>>
    /\ UNCHANGED mainVars
    /\ UNCHANGED pruneVars

NextContext == CallPrintWordsContext

SpecContext == InitContext /\ [][NextContext]_vars

SpecWidth == InitWidth /\ [][NextContext]_vars

-----------------------------------------------------------------------------
(* main *)

RECURSIVE StripLeft(_)
StripLeft(s) ==
    IF s # <<>> /\ Head(s) \in Whitespace THEN StripLeft(Tail(s)) ELSE s

RECURSIVE StripRight(_)
StripRight(s) ==
    IF s # <<>> /\ s[Len(s)] \in Whitespace
    THEN StripRight(SubSeq(s, 1, Len(s) - 1))
    ELSE s

\* Python: s.strip()
NoStrip(s) == s

Strip(s) == StripLeft(StripRight(s))

RECURSIVE SplitLines(_, _)
\* Python: s.split("\n"), cur being the piece read so far
SplitLines(s, cur) ==
    IF s = <<>> THEN <<cur>>
    ELSE IF Head(s) = NL THEN <<cur>> \o SplitLines(Tail(s), <<>>)
         ELSE SplitLines(Tail(s), Append(cur, Head(s)))

\* Line 122
MisspelledWords(standard_out) ==
    LET pieces == SplitLines(standard_out, <<>>)
    IN  [k \in 1..Len(pieces) |-> Strip(pieces[k])]

CheckedFile(filepath, misspelled_words) ==
    [filepath |-> filepath, misspelled_words |-> misspelled_words]

\* Line 145: if bad_files
MoreThanOneBad(bad) == Len(bad) > 1

AnyBad(bad) == bad # <<>>

\* What the engine may write to its standard output.
EngineOutputs ==
    { <<>>, <<" ", NL>>, <<"a", NL>>, <<" ", "b", " ", NL>>,
      <<"a", NL, "b", NL>>, <<"a", NL, NL, "a">> }

\* What open(filepath).readlines() may return for a file that was checked.
OriginalFiles ==
    { <<<<"a", " ", "b", NL>>>>,
      <<<<"c", NL>>, <<"b", NL>>, <<NL>>, <<"c", NL>>>>,
      <<<<"c", NL>>, <<"c", "c", NL>>>> }

DictionaryPaths == {"falsy", "not a str", "missing", "exists"}

Out(what, file) == [what |-> what, file |-> file]
Err(from, what) == [from |-> from, what |-> what]
Call(prog, file) == [prog |-> prog, file |-> file]

Init ==
    /\ pc = "main"
    /\ files \in {[k \in 1..n |-> k] : n \in 0..MaxFiles}
    /\ dict \in DictionaryPaths
    /\ i = 1
    /\ j = 1
    /\ good_files = <<>>
    /\ bad_files = <<>>
    /\ outputs = <<>>
    /\ calls = <<>>
    /\ out_stream = <<>>
    /\ err_stream = <<>>
    /\ exit_code = -1
    /\ CtxIdle
    /\ PruneIdle

\* Lines 334-338: a SpellcheckError reaches the handler of __main__, which
\* prints one message and exits with status 1.  `before` is what external
\* programs wrote to the inherited standard error before the exception.
Fatal(before, message) ==
    /\ err_stream' = err_stream \o before \o <<Err("script", message)>>
    /\ exit_code' = 1
    /\ pc' = "fatal"

\* Lines 73-76
Begin ==
    /\ pc = "main"
    /\ out_stream' = Append(out_stream, Out("RUNNING SPELLCHECK", 0))
    /\ pc' = "loop"
    /\ UNCHANGED <<files, dict, i, j, good_files, bad_files, outputs, calls,
                   err_stream, exit_code>>
    /\ UNCHANGED ctxVars
    /\ UNCHANGED pruneVars

\* Lines 77-78, 247-248: the file does not exist.
FileMissing ==
    /\ pc = "loop"
    /\ i <= Len(files)
    /\ Fatal(<<>>, "non-existent file")
    /\ UNCHANGED <<files, dict, i, j, good_files, bad_files, outputs, calls,
                   out_stream>>
    /\ UNCHANGED ctxVars
    /\ UNCHANGED pruneVars

\* A converter that exits non-zero may have written its own diagnostic.  Its
\* standard error is not redirected (lines 251-256, 278-284), so what it
\* writes goes to the standard error of the process.
ConverterDiagnostics == {<<>>, <<Err("pandoc", "diagnostic")>>}

\* Lines 250-261: the file exists; the first conversion.
ConvertToHtml ==
    /\ pc = "loop"
    /\ i <= Len(files)
    /\ calls' = Append(calls, Call("pandoc to html", files[i]))
    /\ \/ /\ pc' = "to markdown"
          /\ UNCHANGED <<err_stream, exit_code>>
       \/ \E wrote \in ConverterDiagnostics :
              Fatal(wrote, "Failed to convert to HTML")
    /\ UNCHANGED <<files, dict, i, j, good_files, bad_files, outputs, out_stream>>
    /\ UNCHANGED ctxVars
    /\ UNCHANGED pruneVars

\* Lines 263-292: the tree edits and the second conversion.
ConvertToMarkdown ==
    /\ pc = "to markdown"
    /\ calls' = Append(calls, Call("pandoc to markdown", files[i]))
    /\ \/ /\ pc' = "dictionary"
          /\ UNCHANGED <<err_stream, exit_code>>
       \/ \E wrote \in ConverterDiagnostics :
              Fatal(wrote, "Failed to convert back to markdown")
    /\ UNCHANGED <<files, dict, i, j, good_files, bad_files, outputs, out_stream>>
    /\ UNCHANGED ctxVars
    /\ UNCHANGED pruneVars

\* Lines 80-102
CheckDictionary ==
    /\ pc = "dictionary"
    /\ \/ /\ dict \in {"falsy", "exists"}
          /\ pc' = "engine"
          /\ UNCHANGED <<err_stream, exit_code>>
       \/ /\ dict = "not a str"
          /\ Fatal(<<>>, "Dictionary path must be a single string")
       \/ /\ dict = "missing"
          /\ Fatal(<<>>, "No file exists at the specified dictionary path.")
    /\ UNCHANGED <<files, dict, i, j, good_files, bad_files, outputs, calls,
                   out_stream>>
    /\ UNCHANGED ctxVars
    /\ UNCHANGED pruneVars

\* Lines 103-130: the engine runs with its standard error captured; the file
\* is classified by what the engine wrote to its standard output.
RunEngine ==
    /\ pc = "engine"
    /\ calls' = Append(calls, Call("aspell", files[i]))
    /\ \/ /\ Fatal(<<>>, "Failed to spellcheck")
          /\ UNCHANGED <<i, good_files, bad_files, outputs>>
       \/ \E stdout \in EngineOutputs :
            LET standard_out == Strip(stdout)
            IN  /\ outputs' = Append(outputs, stdout)
                /\ IF standard_out # <<>>
                   THEN /\ bad_files' = Append(bad_files,
                               CheckedFile(files[i], MisspelledWords(standard_out)))
                        /\ UNCHANGED good_files
                   ELSE /\ good_files' = Append(good_files,
                               CheckedFile(files[i], <<>>))
                        /\ UNCHANGED bad_files
                /\ i' = i + 1
                /\ pc' = "loop"
                /\ UNCHANGED <<err_stream, exit_code>>
    /\ UNCHANGED <<files, dict, j, out_stream>>
    /\ UNCHANGED ctxVars
    /\ UNCHANGED pruneVars

\* Lines 132-143: what is printed about the clean files.
CleanSummary(good, bad) ==
    IF good = <<>> THEN <<>>
    ELSE <<Out("free from spelling errors:", 0)>>
         \o [k \in 1..Len(good) |-> Out("clean file", good[k].filepath)]
         \o (IF bad = <<>> THEN <<Out("All checked files are free", 0)>> ELSE <<>>)

\* Lines 132-149, 178: the loop is over.
Summarise ==
    /\ pc = "loop"
    /\ i > Len(files)
    /\ IF AnyBad(bad_files)
       THEN /\ out_stream' = out_stream \o CleanSummary(good_files, bad_files)
                                \o <<Out("Found files", Len(bad_files))>>
            /\ pc' = "report"
            /\ UNCHANGED exit_code
       ELSE /\ out_stream' = out_stream \o CleanSummary(good_files, bad_files)
            /\ exit_code' = 0
            /\ pc' = "done"
    /\ UNCHANGED <<files, dict, i, j, good_files, bad_files, outputs, calls,
                   err_stream>>
    /\ UNCHANGED ctxVars
    /\ UNCHANGED pruneVars

\* Lines 150-164: one bad file is reported from its original content.  An
\* IndexError is no SpellcheckError: it leaves main and __main__ uncaught,
\* the interpreter prints the traceback and exits with status 1.
ReportBadFile ==
    /\ pc = "report"
    /\ j <= Len(bad_files)
    /\ \E lines \in OriginalFiles :
         LET r == PrintWordsContext(lines, bad_files[j].misspelled_words)
         IN  /\ content_lines' = lines
             /\ words' = bad_files[j].misspelled_words
             /\ report' = r
             /\ IF r.ended = "returned"
                THEN /\ out_stream' = out_stream
                            \o <<Out("context", bad_files[j].filepath),
                                 Out("misspelled words", bad_files[j].filepath)>>
                     /\ j' = j + 1
                     /\ UNCHANGED <<pc, err_stream, exit_code>>
                ELSE /\ out_stream' = Append(out_stream,
                            Out("has potentially misspelled words", bad_files[j].filepath))
                     /\ err_stream' = Append(err_stream, Err("python", "Traceback"))
                     /\ exit_code' = 1
                     /\ pc' = "uncaught"
                     /\ UNCHANGED j
    /\ UNCHANGED <<files, dict, i, good_files, bad_files, outputs, calls>>
    /\ UNCHANGED pruneVars

\* Lines 165-176
ReturnOne ==
    /\ pc = "report"
    /\ j > Len(bad_files)
    /\ out_stream' = Append(out_stream, Out("update your local dictionary", 0))
    /\ exit_code' = 1
    /\ pc' = "done"
    /\ UNCHANGED <<files, dict, i, j, good_files, bad_files, outputs, calls,
                   err_stream>>
    /\ UNCHANGED ctxVars
    /\ UNCHANGED pruneVars

Next ==
    \/ Begin
    \/ FileMissing
    \/ ConvertToHtml
    \/ ConvertToMarkdown
    \/ CheckDictionary
    \/ RunEngine
    \/ Summarise
    \/ ReportBadFile
    \/ ReturnOne

Spec == Init /\ [][Next]_vars

Ended == pc \in {"done", "fatal", "uncaught"}

-----------------------------------------------------------------------------
(* prune_content *)

\* The tree BeautifulSoup parses from the converter's HTML.  A text node
\* holds a sequence of tokens: words, single whitespace characters, URLs.
\* An element holds its children; cls and href are "" where it has none.
Text(tokens) == [tag |-> "#text", cls |-> "", href |-> "", text |-> tokens, kids |-> <<>>]
Element(tag, cls, href, kids) ==
    [tag |-> tag, cls |-> cls, href |-> href, text |-> <<>>, kids |-> kids]

\* The tokens the pattern https://[\S]* starts a match at.
HttpsTokens == {"https://x"}

Matches(node, what) ==
    CASE what = "code" -> node.tag = "code"
      [] what = "div.sourceCode" -> node.tag = "div" /\ node.cls = "sourceCode"
      [] what = "a" -> node.tag = "a"

RECURSIVE Flatten(_)
Flatten(seqs) == IF seqs = <<>> THEN <<>> ELSE Head(seqs) \o Flatten(Tail(seqs))

RECURSIVE DecomposeAll(_, _)
\* Lines 266-270: for tag in soup.find_all(what): tag.decompose()
DecomposeTopLevelOnly(nodes, what) ==
    SelectSeq(nodes, LAMBDA n : ~Matches(n, what))

DecomposeAll(nodes, what) ==
    LET kept == SelectSeq(nodes, LAMBDA n : ~Matches(n, what))
    IN  [k \in 1..Len(kept) |->
            [kept[k] EXCEPT !.kids = DecomposeAll(kept[k].kids, what)]]

RECURSIVE GetText(_)
\* Tag.get_text(): the text of all the descendants, joined
GetText(node) ==
    IF node.tag = "#text" THEN node.text
    ELSE Flatten([k \in 1..Len(node.kids) |-> GetText(node.kids[k])])

RECURSIVE ReplaceAnchors(_)
\* Lines 272-273: for a_tag in soup.find_all("a"): a_tag.replace_with(text)
KeepAnchors(nodes) == nodes

ReplaceAnchors(nodes) ==
    [k \in 1..Len(nodes) |->
        IF nodes[k].tag = "a" THEN Text(GetText(nodes[k]))
        ELSE [nodes[k] EXCEPT !.kids = ReplaceAnchors(nodes[k].kids)]]

Token(kind, s) == [kind |-> kind, s |-> s]

RECURSIVE Serialise(_)
\* Line 275: str(soup), as tokens: tags, attribute values, text
Serialise(nodes) ==
    Flatten([k \in 1..Len(nodes) |->
        LET n == nodes[k]
        IN  IF n.tag = "#text" THEN [p \in 1..Len(n.text) |-> Token("text", n.text[p])]
            ELSE <<Token("open", n.tag)>>
                 \o (IF n.href # "" THEN <<Token("attr", n.href)>> ELSE <<>>)
                 \o Serialise(n.kids)
                 \o <<Token("close", n.tag)>>])

RECURSIVE StripHttps(_, _)
\* Line 276: re.sub(r"https://[\S]*", "", pruned_html).  A match runs from
\* the URL through everything up to the next whitespace, tags included.
StripHttps(tokens, in_match) ==
    IF tokens = <<>> THEN <<>>
    ELSE LET t == Head(tokens)
         IN  IF t.kind = "text" /\ t.s \in Whitespace
             THEN <<t>> \o StripHttps(Tail(tokens), FALSE)
             ELSE IF in_match \/ t.s \in HttpsTokens
                  THEN StripHttps(Tail(tokens), TRUE)
                  ELSE <<t>> \o StripHttps(Tail(tokens), in_match)

\* Lines 277-290: the converter renders the HTML as markdown: the tags go,
\* the text stays, a link that is still an element keeps its target.
ToMarkdown(tokens) ==
    LET kept == SelectSeq(tokens, LAMBDA t : t.kind \in {"text", "attr"})
    IN  [k \in 1..Len(kept) |-> kept[k].s]

\* Lines 263-292
PruneContent(soup) ==
    LET no_code == DecomposeAll(soup, "code")
        no_blocks == DecomposeAll(no_code, "div.sourceCode")
        tree == ReplaceAnchors(no_blocks)
        pruned_html == StripHttps(Serialise(tree), FALSE)
    IN  [tree |-> tree, text |-> ToMarkdown(pruned_html)]

InlineCode(s) == Element("code", "", "", <<Text(<<s>>)>>)
Link(href, kids) == Element("a", "", href, kids)

\* The nodes the documents are made of
NodeSet ==
    { Text(<<"foo">>), Text(<<" ">>), Text(<<"https://x">>),
      InlineCode("foo"), InlineCode("bar"),
      Link("https://x", <<Text(<<"foo">>)>>),
      Link("http://y", <<Text(<<"link">>)>>),
      Link("http://y", <<InlineCode("bar")>>),
      Link("https://x", <<Text(<<"https://x">>)>>),
      Link("http://y", <<Text(<<"http://y">>)>>),
      Element("div", "sourceCode", "",
              <<Element("pre", "sourceCode", "",
                        <<Element("code", "sourceCode", "", <<Text(<<"src">>)>>)>>)>>),
      Element("pre", "", "", <<InlineCode("raw")>>) }

InitPrune ==
    /\ pc = "prune_call"
    /\ doc \in SeqsUpTo(NodeSet, MaxNodes)
    /\ pruned = [tree |-> <<>>, text |-> <<>>]
    /\ MainIdle
    /\ CtxIdle

CallPruneContent ==
    /\ pc = "prune_call"
    /\ pruned' = PruneContent(doc)
    /\ pc' = "pruned"
    /\ UNCHANGED doc
    /\ UNCHANGED mainVars
    /\ UNCHANGED ctxVars

NextPrune == CallPruneContent

SpecPrune == InitPrune /\ [][NextPrune]_vars

-----------------------------------------------------------------------------
(* Properties of the context reporter *)

RECURSIVE CountFrom(_, _, _)
\* Number of non-overlapping occurrences of w in s from position k on.
CountFrom(s, w, k) ==
    IF k > Len(s) \/ w = <<>> THEN 0
    ELSE IF OccursAt(s, w, k) THEN 1 + CountFrom(s, w, k + Len(w))
         ELSE CountFrom(s, w, k + 1)

IsMatchLine(n) ==
    \E k \in 1..Len(words) :
        \E p \in 1..(Len(content_lines[n + 1]) + 1) :
            OccursAt(content_lines[n + 1], words[k], p)

\* C3: the line indices printed by print_words_context are, ascending and each
\* once, exactly the indices within the file that are a match line or next to
\* one: N-1, N, N+1 for an interior match line N, N and N+1 for a match on
\* the first line, N-1 and N for a match on the last line, and nothing else.
C3_PrintedLinesAreClampedNeighbourhoods ==
    pc = "ctx_done" =>
        LET idx == PrintedIndices(report.printed)
            n == Len(content_lines)
            expected == {k \in 0..(n - 1) :
                            \E m \in 0..(n - 1) :
                                IsMatchLine(m) /\ k - m \in {-1, 0, 1}}
        IN  /\ \A a, b \in 1..Len(idx) : a < b => idx[a] < idx[b]
            /\ {idx[a] : a \in 1..Len(idx)} = expected

\* A three-line file whose only match line is the first one has been reported:
\* lines 0 and 1 were printed.
C3_Witness ==
    /\ pc = "ctx_done"
    /\ Len(content_lines) = 3
    /\ IsMatchLine(0) /\ ~IsMatchLine(1) /\ ~IsMatchLine(2)
    /\ PrintedIndices(report.printed) = <<0, 1>>

\* C8: every flagged word that occurs in a printed line has each of its
\* occurrences wrapped in the highlight marker in the printed copy.
C8_EveryOccurrenceHighlighted ==
    pc = "ctx_done" =>
        \A p \in 1..Len(report.printed) :
            report.printed[p].kind = "line" =>
                LET line == content_lines[report.printed[p].index + 1]
                    copy == report.printed[p].text
                IN  \A k \in 1..Len(words) :
                        CountFrom(copy, RED \o words[k] \o RESET, 1)
                            >= CountFrom(line, words[k], 1)

\* C10: the width the line numbers are aligned to is the number of digits of
\* the largest line number of the file.
C10_WidthIsDigitsOfLastLineNumber ==
    (pc = "ctx_done" /\ report.ended = "returned") =>
        report.width = Digits(Len(content_lines))

-----------------------------------------------------------------------------
(* Properties of main *)

AllWhitespace(s) == \A k \in 1..Len(s) : s[k] \in Whitespace

InList(list, f) == \E k \in 1..Len(list) : list[k].filepath = f

Occurrences(list, f) == Cardinality({k \in 1..Len(list) : list[k].filepath = f})

\* C1: every file the loop has processed is in exactly one of good_files and
\* bad_files; it is in good_files exactly when the engine's output for it is
\* empty or whitespace only, and then its word list is empty; otherwise it is
\* in bad_files with a non-empty word list.  No other file is in either list.
C1_GoodAndBadPartitionTheCheckedFiles ==
    /\ \A k \in 1..Len(outputs) :
         LET f == files[k]
         IN  /\ Occurrences(good_files, f) + Occurrences(bad_files, f) = 1
             /\ InList(good_files, f) <=> AllWhitespace(outputs[k])
    /\ \A k \in 1..Len(good_files) :
         /\ good_files[k].misspelled_words = <<>>
         /\ good_files[k].filepath \in {files[n] : n \in 1..Len(outputs)}
    /\ \A k \in 1..Len(bad_files) :
         /\ bad_files[k].misspelled_words # <<>>
         /\ bad_files[k].filepath \in {files[n] : n \in 1..Len(outputs)}

\* A run has ended without error after classifying one file good on an output
\* of whitespace only, and another file bad.
C1_Witness ==
    /\ pc = "done"
    /\ \E k \in 1..Len(outputs) :
         /\ outputs[k] # <<>>
         /\ AllWhitespace(outputs[k])
         /\ InList(good_files, files[k])
    /\ bad_files # <<>>

\* C2: a run that finishes without a fatal error returns 1 if some file was
\* classified bad and 0 otherwise (also when no file matched), and every file
\* with no flagged word has been listed under the clean files.
C2_ExitCodeAndCleanList ==
    pc = "done" =>
        /\ exit_code = (IF \E k \in 1..Len(outputs) : ~AllWhitespace(outputs[k])
                        THEN 1 ELSE 0)
        /\ Len(outputs) = Len(files)
        /\ \A k \in 1..Len(outputs) :
              AllWhitespace(outputs[k]) =>
                  \E p \in 1..Len(out_stream) :
                      out_stream[p] = Out("clean file", files[k])

\* A run with a clean file and a bad file has returned 1.
C2_Witness ==
    /\ pc = "done"
    /\ exit_code = 1
    /\ good_files # <<>>
    /\ bad_files # <<>>

DictionaryNotFound == Err("script", "No file exists at the specified dictionary path.")

\* C6: when the dictionary path names no existing file, the run ends with the
\* dictionary-not-found error and status 1, whatever the files matched, and
\* no converter or engine was run for any file before that.
C6_MissingDictionaryAbortsBeforeAnyCheck ==
    /\ dict = "missing" => calls = <<>>
    /\ (dict = "missing" /\ Ended) =>
          /\ exit_code = 1
          /\ \E p \in 1..Len(err_stream) : err_stream[p] = DictionaryNotFound

\* C7: when pruning or spellchecking a file fails, the run stops at that file:
\* no later file is pruned or checked, nothing but the heading has been
\* printed, exactly one diagnostic message is on the error stream and the
\* exit status is 1.
C7_FailureAbortsWithOneDiagnostic ==
    pc = "fatal" =>
        /\ \A c \in 1..Len(calls) : calls[c].file <= files[i]
        /\ out_stream = <<Out("RUNNING SPELLCHECK", 0)>>
        /\ Len(err_stream) = 1
        /\ exit_code = 1

\* C9: for every bad file print_words_context returns normally, and a run
\* with a bad file that met no pruning or spellchecking failure returns 1
\* from main.
C9_FindingsNeverTurnIntoErrors ==
    /\ report.ended # "IndexError"
    /\ (Ended /\ bad_files # <<>> /\ pc # "fatal") => (pc = "done" /\ exit_code = 1)

-----------------------------------------------------------------------------
(* Properties of the content pruner *)

RECURSIVE NodesOf(_)
\* All the nodes of a tree
NodesOf(nodes) ==
    UNION {{nodes[k]} \cup NodesOf(nodes[k].kids) : k \in 1..Len(nodes)}

RECURSIVE Prose(_)
\* The text of a tree that is outside code elements, link text included
Prose(nodes) ==
    Flatten([k \in 1..Len(nodes) |->
        IF nodes[k].tag = "#text" THEN nodes[k].text
        ELSE IF nodes[k].tag = "code" THEN <<>>
        ELSE Prose(nodes[k].kids)])

Elements(s) == {s[k] : k \in 1..Len(s)}

Anchors == {n \in 1..Len(doc) : doc[n].tag = "a"}

HasCode(node) == \E n \in NodesOf(<<node>>) : n.tag = "code"

\* The text that precedes top-level node n without whitespace in between
RunBefore(n) ==
    LET before == Prose(SubSeq(doc, 1, n - 1))
        spaces == {k \in 1..Len(before) : before[k] \in Whitespace}
        from == IF spaces = {} THEN 1
                ELSE 1 + CHOOSE k \in spaces : \A m \in spaces : m <= k
    IN  SubSeq(before, from, Len(before))

\* C4 as stated: for every hyperlink of the document the pruned text contains
\* its visible text and does not contain its target.
C4_LinkTextKeptAndTargetDropped ==
    pc = "pruned" =>
        \A n \in Anchors :
            /\ In(GetText(doc[n]), pruned.text)
            /\ doc[n].href \notin Elements(pruned.text)

\* C4 as amended: no hyperlink element is left in the tree.  The pruned text
\* holds a link's target only where the same string, not starting with
\* https://, is text of the document outside code.  It holds the link's
\* visible text when that text has no inline code and neither it nor the text
\* running up to it without whitespace has an https:// URL.
C4_LinkReplacedByItsProse ==
    pc = "pruned" =>
        /\ \A node \in NodesOf(pruned.tree) : node.tag # "a"
        /\ \A n \in Anchors :
            /\ doc[n].href \in Elements(pruned.text) =>
                  /\ doc[n].href \notin HttpsTokens
                  /\ doc[n].href \in Elements(Prose(doc))
            /\ (/\ ~HasCode(doc[n])
                /\ Elements(RunBefore(n) \o GetText(doc[n])) \cap HttpsTokens = {})
                  => In(GetText(doc[n]), pruned.text)

\* A document with a link whose target does not start with https:// and a
\* link to an https:// URL, both with plain text, has been pruned and the
\* text of both is in the result.
C4_Witness ==
    /\ pc = "pruned"
    /\ \E n, m \in Anchors :
         /\ doc[n].href \notin HttpsTokens
         /\ doc[m].href \in HttpsTokens
         /\ ~HasCode(doc[n]) /\ ~HasCode(doc[m])
         /\ doc[n].href \notin Elements(Prose(doc))
         /\ In(GetText(doc[n]), pruned.text)
         /\ In(GetText(doc[m]), pruned.text)

CodeNodes == {n \in NodesOf(doc) : n.tag = "code"}

NoCodeLeft ==
    \A node \in NodesOf(pruned.tree) :
        node.tag # "code" /\ ~(node.tag = "div" /\ node.cls = "sourceCode")

\* C5 as stated: no inline-code or code-block node is left in the tree, and
\* the text of a code node of the document does not appear in the pruned
\* text.
C5_CodeTextNotInPrunedText ==
    pc = "pruned" =>
        /\ NoCodeLeft
        /\ \A c \in CodeNodes : ~In(GetText(c), pruned.text)

\* C5 as amended: no inline-code or code-block node is left in the tree, and
\* the pruned text holds nothing but text the document has outside code: the
\* text of a code node appears in it only if the same text is also written
\* outside code.
C5_OnlyProseInPrunedText ==
    pc = "pruned" =>
        /\ NoCodeLeft
        /\ Elements(pruned.text) \subseteq Elements(Prose(doc))
        /\ \A c \in CodeNodes :
              In(GetText(c), pruned.text) => In(GetText(c), Prose(doc))

\* A document with inline code, a code block and prose has been pruned; the
\* prose is in the result.
C5_Witness ==
    /\ pc = "pruned"
    /\ \E c \in CodeNodes : c.cls = ""
    /\ \E c \in CodeNodes : c.cls = "sourceCode"
    /\ pruned.text = <<"foo">>

====
